---- MODULE Spec2Model ----
(***************************************************************************)
(* Execution-history loader of the webhook details page                    *)
(* (WebhookDetailsPage, apps/web/src/pages/webhook-details/index.tsx) and  *)
(* the useJobExecutions query hook it is built on; the display of the      *)
(* loaded executions (transformExecution, getStatusBadge, summaryStats);   *)
(* and the schedule engine of lib/cron-utils.ts.                           *)
(*                                                                         *)
(* The component's useState cells and useRef cells are the variables.  An  *)
(* event handler (observer callback, refresh click, promise continuation)  *)
(* is one action; a render commit together with the effects it flushes is  *)
(* one action (Render).  The query cache of the query library is modelled  *)
(* per key (job, offset): its data and whether a fetch is in flight.  The  *)
(* execution store behind the HTTP endpoint is a list of executions,       *)
(* newest first, that grows while the page is open.                        *)
(*                                                                         *)
(* Spec is the loader over finished executions, SpecRefresh the same with  *)
(* a refresh whose timer and re-fetch end, SpecStatic the loader over a    *)
(* store at rest whose fetches all succeed, SpecStatus the loader over a   *)
(* store with an execution that is still running, SpecDisplay the display  *)
(* of a list of rows, SpecCron the functions of the schedule engine        *)
(* applied to a cron string.                                               *)
(***************************************************************************)
EXTENDS Integers, Sequences, FiniteSets, TLC

\* ------------------------------------------------------------------ bounds
MaxOffset == 40          \* largest offset loadMore may advance to
MaxArrivals == 1         \* executions created in the store while the page is open
MaxNavigations == 1      \* changes of the job id in the route

\* --------------------------------------------------------------- constants
PageSize == 20           \* the limit of both useJobExecutions calls, and the step of loadMore

JobIds == {"A", "B"}
Offsets == {o \in 0..MaxOffset : o % PageSize = 0}
MoreOffsets == Offsets \ {0}
\* rows of a job's store when the page opens: A fills page 0 exactly or
\* spills into page 20, B is a short first page
InitialRows(j) == IF j = "A" THEN {PageSize, PageSize + 5} ELSE {3}

VARIABLES
  id,                          \* useParams().id
  isRefreshing,                \* useState
  loadedExecutions,            \* useState: sequence of execution ids
  totalExecutions,             \* useState
  currentOffset,               \* useState
  hasMore,                     \* useState
  isLoadingMore,               \* useState
  hasMoreRef,                  \* useRef
  isLoadingMoreRef,            \* useRef
  isLoadingMoreExecutionsRef,  \* useRef
  deps,                        \* what the last committed render saw
  observing,                   \* an IntersectionObserver watches the mounted sentinel
  cache,                       \* query cache: [job][offset] -> entry
  store,                       \* execution store: [job] -> ids, newest first
  arrivals,                    \* executions created since the page opened
  navigations,                 \* changes of the job id so far
  refreshPc,                   \* position of the refresh onClick handler
  refreshJob,                  \* the job whose page 0 the refresh re-fetches
  requested,                   \* records asked of the query hook since the last reset
  heldTerminal                 \* per record that was unfinished when the page opened:
                               \* the terminal status the loader has held it in, or "none"

\* the execution list as it is displayed
VARIABLES
  shownBy,                     \* the component that rendered the list, or "none"
  apiExecutions,               \* the rows of the API it was given
  executions,                  \* useMemo: the rows after transformExecution
  badges,                      \* the class of the badge getStatusBadge gives each row
  summaryStats                 \* useMemo: the summary statistics

\* the schedule engine (lib/cron-utils.ts)
VARIABLES
  cron,                        \* the cron string: a sequence of characters
  parsed,                      \* what parseCronExpression(cron) returned
  validation,                  \* what validateCronExpression(cron) returned
  described,                   \* what describeCronExpression(cron) returned
  projections,                 \* calls of generateNextRuns so far
  library                      \* what the clock and the libraries did in the call
                               \* of describeCronExpression

reactState == <<id, isRefreshing, loadedExecutions, totalExecutions, currentOffset,
                hasMore, isLoadingMore>>
refs == <<hasMoreRef, isLoadingMoreRef, isLoadingMoreExecutionsRef>>
loaderVars == <<id, isRefreshing, loadedExecutions, totalExecutions, currentOffset,
                hasMore, isLoadingMore, hasMoreRef, isLoadingMoreRef,
                isLoadingMoreExecutionsRef, deps, observing, cache, store, arrivals,
                navigations, refreshPc, refreshJob, requested, heldTerminal>>
displayVars == <<shownBy, apiExecutions, executions, badges, summaryStats>>
cronVars == <<cron, parsed, validation, described, projections, library>>
vars == <<id, isRefreshing, loadedExecutions, totalExecutions, currentOffset,
          hasMore, isLoadingMore, hasMoreRef, isLoadingMoreRef,
          isLoadingMoreExecutionsRef, deps, observing, cache, store, arrivals,
          navigations, refreshPc, refreshJob, requested, heldTerminal,
          shownBy, apiExecutions, executions, badges, summaryStats,
          cron, parsed, validation, described, projections, library>>

\* ------------------------------------------------------------ pure helpers
\* the result of a function that has not been called
NotCalled == [called |-> FALSE]

Min(a, b) == IF a < b THEN a ELSE b

RECURSIVE Rows(_, _)
\* finished executions with the ids base+n, base+n-1, ..., base+1: the
\* newest execution first
Rows(base, n) ==
  IF n = 0 THEN <<>>
  ELSE <<[id |-> base + n, status |-> "success"]>> \o Rows(base, n - 1)

IdBase(j) == IF j = "A" THEN 0 ELSE 1000

\* new Set(s.map((e) => e.id))
SeqToSet(s) == {s[i].id : i \in 1..Len(s)}

NoDuplicates(s) == \A i, j \in 1..Len(s) : i # j => s[i].id # s[j].id

FilterOut(s, seen) == SelectSeq(s, LAMBDA e : e.id \notin seen)

\* the statuses an execution ends in
Terminal == {"success", "failure", "timed_out"}

\* the statuses that follow a status
NextStatuses(status) ==
  IF status = "queued" THEN {"running"}
  ELSE IF status = "running" THEN Terminal
  ELSE {}

\* heldTerminal once the loader holds the list loaded
HeldAfter(held, loaded) ==
  [i \in DOMAIN held |->
     IF \E k \in 1..Len(loaded) : loaded[k].id = i /\ loaded[k].status \in Terminal
     THEN (CHOOSE st \in Terminal :
             \E k \in 1..Len(loaded) : loaded[k].id = i /\ loaded[k].status = st)
     ELSE held[i]]

\* query data that is undefined
NoData == [has |-> FALSE, rows |-> <<>>, total |-> 0, late |-> FALSE]

\* GET /api/schedules/{j}/executions?limit=20&offset=o against the store st;
\* late marks the answer of a fetch that a refresh found in flight
ServerPage(st, j, o, late) ==
  [has |-> TRUE, late |-> late,
   rows |-> IF o >= Len(st[j]) THEN <<>>
            ELSE SubSeq(st[j], o + 1, Min(o + PageSize, Len(st[j]))),
   total |-> Len(st[j])]

\* a key of the query cache; preRefresh marks a fetch in flight that was
\* issued before the last refresh reset the loader
EmptyEntry == [data |-> NoData, fetching |-> FALSE, preRefresh |-> FALSE]

\* ------------------------------------------------- the component's state
\* the useState cells as one value, so that a handler and the render that
\* follows it can be composed
State ==
  [id |-> id, isRefreshing |-> isRefreshing, loadedExecutions |-> loadedExecutions,
   totalExecutions |-> totalExecutions, currentOffset |-> currentOffset,
   hasMore |-> hasMore, isLoadingMore |-> isLoadingMore]

\* ------------------------------------------------------ useJobExecutions
\* The observer of a query fetches when it is pointed at another key
\* (changed) that is enabled, has no fetch in flight, and has no data or
\* stale data.
Subscribe(c, j, o, changed, stale) ==
  IF changed /\ ~c[j][o].fetching /\ (~c[j][o].data.has \/ stale)
  THEN [c EXCEPT ![j][o].fetching = TRUE]
  ELSE c

\* what one render of the component sees: the state cells, and the results
\* of useJobExecutions(id, 20, 0) and useJobExecutions(id, 20, loadMoreOffset)
View(S, c) ==
  LET first == c[S.id][0]
      more == IF S.currentOffset > 0 THEN c[S.id][S.currentOffset] ELSE EmptyEntry
  IN [id |-> S.id,
      executionsData |-> first.data,
      isLoadingExecutions |-> first.fetching /\ ~first.data.has,
      isRefetchingExecutions |-> first.fetching /\ first.data.has,
      moreExecutionsData |-> more.data,
      isLoadingMoreExecutions |-> more.fetching /\ ~more.data.has,
      currentOffset |-> S.currentOffset,
      loadedLen |-> Len(S.loadedExecutions),
      isRefreshing |-> S.isRefreshing,
      hasMore |-> S.hasMore,
      isLoadingMore |-> S.isLoadingMore]

\* ------------------------------------------------------------ the effects
\* the initialize effect without its setHasMore
InitializeEffectKeepHasMore(S, v) ==
  IF v.executionsData.has /\ v.currentOffset = 0
     /\ (v.loadedLen = 0 \/ v.isRefreshing)
  THEN [S EXCEPT !.loadedExecutions = v.executionsData.rows,
                 !.totalExecutions = v.executionsData.total,
                 !.isLoadingMore = FALSE]
  ELSE S

\* "Initialize loaded executions when first data loads or on refresh"
InitializeEffect(S, v) ==
  IF v.executionsData.has /\ v.currentOffset = 0
     /\ (v.loadedLen = 0 \/ v.isRefreshing)
  THEN [S EXCEPT !.loadedExecutions = v.executionsData.rows,
                 !.totalExecutions = v.executionsData.total,
                 !.hasMore = (Len(v.executionsData.rows) = PageSize),
                 !.isLoadingMore = FALSE]
  ELSE S

\* the append updater without its id filter
AppendPageNoDedup(prev, rows) == prev \o rows

\* the append updater putting the new page before what was loaded
AppendPagePrepend(prev, rows) == FilterOut(rows, SeqToSet(prev)) \o prev

\* the updater of setLoadedExecutions in the append effect
AppendPage(prev, rows) == prev \o FilterOut(rows, SeqToSet(prev))

\* the append effect without the setHasMore(false) of its empty-page branch
AppendEffectKeepOnEmpty(S, v) ==
  IF v.moreExecutionsData.has /\ v.currentOffset > 0
  THEN IF Len(v.moreExecutionsData.rows) > 0
       THEN [S EXCEPT !.loadedExecutions = AppendPage(@, v.moreExecutionsData.rows),
                      !.hasMore = (Len(v.moreExecutionsData.rows) = PageSize),
                      !.isLoadingMore = FALSE]
       ELSE [S EXCEPT !.isLoadingMore = FALSE]
  ELSE S

\* the append effect taking the total of the page it appends
AppendEffectSetTotal(S, v) ==
  IF v.moreExecutionsData.has /\ v.currentOffset > 0
  THEN IF Len(v.moreExecutionsData.rows) > 0
       THEN [S EXCEPT !.loadedExecutions = AppendPage(@, v.moreExecutionsData.rows),
                      !.totalExecutions = v.moreExecutionsData.total,
                      !.hasMore = (Len(v.moreExecutionsData.rows) = PageSize),
                      !.isLoadingMore = FALSE]
       ELSE [S EXCEPT !.totalExecutions = v.moreExecutionsData.total,
                      !.hasMore = FALSE, !.isLoadingMore = FALSE]
  ELSE S

\* "Append more executions when loading more"
AppendEffect(S, v) ==
  IF v.moreExecutionsData.has /\ v.currentOffset > 0
  THEN IF Len(v.moreExecutionsData.rows) > 0
       THEN [S EXCEPT !.loadedExecutions = AppendPage(@, v.moreExecutionsData.rows),
                      !.hasMore = (Len(v.moreExecutionsData.rows) = PageSize),
                      !.isLoadingMore = FALSE]
       ELSE [S EXCEPT !.hasMore = FALSE, !.isLoadingMore = FALSE]
  ELSE S

\* "Reset when webhook ID changes"
ResetEffect(S) ==
  [S EXCEPT !.loadedExecutions = <<>>, !.totalExecutions = 0,
            !.currentOffset = 0, !.hasMore = TRUE, !.isLoadingMore = FALSE]

\* the list container and the sentinel are in the DOM
SentinelMounted(v) == ~v.isLoadingExecutions /\ v.loadedLen > 0 /\ v.hasMore

\* One render of state S against cache c and the effects it flushes, in
\* source order; old is what the previous render saw.  The result holds the
\* next value of every cell, ref and the cache, and the number of pages
\* whose key a query was newly pointed at.
Commit(S, c, old, wasObserving, stale0, staleMore) ==
  LET c1 == Subscribe(c, S.id, 0, S.id # old.id, stale0)
      c2 == IF S.currentOffset > 0
            THEN Subscribe(c1, S.id, S.currentOffset,
                           S.id # old.id \/ S.currentOffset # old.currentOffset,
                           staleMore)
            ELSE c1
      v == View(S, c2)
      s1 == IF <<v.executionsData, v.currentOffset, v.loadedLen, v.isRefreshing>>
               # <<old.executionsData, old.currentOffset, old.loadedLen, old.isRefreshing>>
            THEN InitializeEffect(S, v) ELSE S
      s2 == IF <<v.moreExecutionsData, v.currentOffset>>
               # <<old.moreExecutionsData, old.currentOffset>>
            THEN AppendEffect(s1, v) ELSE s1
      s3 == IF v.id # old.id THEN ResetEffect(s2) ELSE s2
  IN [state |-> s3,
      hasMoreRef |-> v.hasMore,
      isLoadingMoreRef |-> v.isLoadingMore,
      isLoadingMoreExecutionsRef |-> v.isLoadingMoreExecutions,
      observing |-> IF v.loadedLen # old.loadedLen \/ v.hasMore # old.hasMore
                    THEN SentinelMounted(v)
                    ELSE wasObserving /\ SentinelMounted(v),
      deps |-> v,
      cache |-> c2,
      asked |-> (IF S.id # old.id THEN 1 ELSE 0)
                + (IF S.currentOffset > 0
                      /\ (S.id # old.id \/ S.currentOffset # old.currentOffset)
                   THEN 1 ELSE 0)]

\* the next value of the state cells
SetState(S) ==
  /\ id' = S.id
  /\ isRefreshing' = S.isRefreshing
  /\ loadedExecutions' = S.loadedExecutions
  /\ totalExecutions' = S.totalExecutions
  /\ currentOffset' = S.currentOffset
  /\ hasMore' = S.hasMore
  /\ isLoadingMore' = S.isLoadingMore
  /\ heldTerminal' = HeldAfter(heldTerminal, S.loadedExecutions)

\* the next value of everything a commit writes
Committed(r) ==
  /\ SetState(r.state)
  /\ hasMoreRef' = r.hasMoreRef
  /\ isLoadingMoreRef' = r.isLoadingMoreRef
  /\ isLoadingMoreExecutionsRef' = r.isLoadingMoreExecutionsRef
  /\ observing' = r.observing
  /\ deps' = r.deps
  /\ cache' = r.cache

\* ------------------------------------------------------------ the actions
\* the page has mounted for job A: the first render is committed and the
\* fetch of page 0 is in flight
LoaderMounted ==
  /\ id = "A"
  /\ isRefreshing = FALSE
  /\ loadedExecutions = <<>>
  /\ totalExecutions = 0
  /\ currentOffset = 0
  /\ hasMore = TRUE
  /\ isLoadingMore = FALSE
  /\ hasMoreRef = TRUE
  /\ isLoadingMoreRef = FALSE
  /\ isLoadingMoreExecutionsRef = FALSE
  /\ observing = FALSE
  /\ cache = [j \in JobIds |-> [o \in Offsets |->
                IF j = "A" /\ o = 0 THEN [EmptyEntry EXCEPT !.fetching = TRUE]
                ELSE EmptyEntry]]
  /\ deps = View(State, cache)
  /\ arrivals = 0
  /\ navigations = 0
  /\ refreshPc = "idle"
  /\ refreshJob = "A"
  /\ requested = PageSize

\* the page has mounted and every execution in the store has finished
LoaderInit ==
  /\ LoaderMounted
  /\ \E n \in [JobIds -> 0..(2 * PageSize + 1)] :
       /\ \A j \in JobIds : n[j] \in InitialRows(j)
       /\ store = [j \in JobIds |-> Rows(IdBase(j), n[j])]
  /\ heldTerminal = [i \in {} |-> "none"]

\* no list has been displayed
DisplayIdle ==
  /\ shownBy = "none"
  /\ apiExecutions = <<>>
  /\ executions = <<>>
  /\ badges = <<>>
  /\ summaryStats = [total |-> 0, success |-> 0, error |-> 0, successRate |-> 0]

\* no function of the schedule engine has been called
CronIdle ==
  /\ cron = <<>>
  /\ parsed = NotCalled
  /\ validation = NotCalled
  /\ described = NotCalled
  /\ projections = 0
  /\ library = NotCalled

Init == LoaderInit /\ DisplayIdle /\ CronIdle

\* a state or query result changed: the component renders and its effects run
Render ==
  /\ View(State, cache) # deps
  /\ \E staleMore \in BOOLEAN :
       LET r == Commit(State, cache, deps, observing, FALSE, staleMore)
       IN /\ Committed(r)
          /\ requested' = requested + PageSize * r.asked
  /\ UNCHANGED <<store, arrivals, navigations, refreshPc, refreshJob,
                 displayVars, cronVars>>

\* the guard of loadMore (and of the observer callback that calls it)
LoadMoreGuard ==
  ~isLoadingMoreRef /\ hasMoreRef /\ ~isLoadingMoreExecutionsRef

\* the sentinel intersects the scroll container: the observer callback runs
\* and calls loadMore
LoadMore ==
  /\ observing
  /\ LoadMoreGuard
  /\ currentOffset + PageSize <= MaxOffset
  /\ isLoadingMore' = TRUE
  /\ currentOffset' = currentOffset + PageSize
  /\ UNCHANGED <<id, isRefreshing, loadedExecutions, totalExecutions, hasMore,
                 refs, deps, observing, cache, store, arrivals, navigations,
                 refreshPc, refreshJob, requested, heldTerminal, displayVars,
                 cronVars>>

\* the refresh button's onClick up to its first await, and the synchronous
\* render of a click
RefreshClick ==
  /\ refreshPc = "idle"
  /\ ~deps.isRefetchingExecutions /\ ~deps.isRefreshing
  /\ LET S == [State EXCEPT !.isRefreshing = TRUE, !.currentOffset = 0,
                            !.hasMore = TRUE, !.isLoadingMore = FALSE,
                            !.loadedExecutions = <<>>]
         c == [cache EXCEPT ![id] = [o \in Offsets |->
                  [@[o] EXCEPT !.preRefresh = @ \/ (o > 0 /\ cache[id][o].fetching)]]]
         r == Commit(S, c, deps, observing, FALSE, FALSE)
     IN Committed(r)
  /\ refreshPc' = "delay"
  /\ requested' = 0
  /\ UNCHANGED <<store, arrivals, navigations, refreshJob, displayVars, cronVars>>

\* the 400 ms timer of the refresh handler ends: refetchExecutions() is called
RefreshRefetch ==
  /\ refreshPc = "delay"
  /\ refreshPc' = "fetching"
  /\ refreshJob' = deps.id
  /\ cache' = [cache EXCEPT ![deps.id][0].fetching = TRUE]
  /\ requested' = PageSize
  /\ UNCHANGED <<reactState, refs, deps, observing, store, arrivals, navigations,
                 heldTerminal, displayVars, cronVars>>

\* the refresh handler clearing isRefreshing only when the re-fetch brought
\* rows
RefreshContinueKeepRefreshing(S, c) ==
  LET data == c[deps.id][0].data
  IN IF data.has /\ Len(data.rows) > 0
     THEN [S EXCEPT !.loadedExecutions = data.rows,
                    !.totalExecutions = data.total,
                    !.hasMore = (Len(data.rows) = PageSize),
                    !.isRefreshing = FALSE]
     ELSE [S EXCEPT !.totalExecutions = 0, !.hasMore = FALSE]

\* the rest of the refresh handler, run with the result of refetchExecutions():
\* the current result of the first query's observer
RefreshContinue(S, c) ==
  LET data == c[deps.id][0].data
      s1 == IF data.has /\ Len(data.rows) > 0
            THEN [S EXCEPT !.loadedExecutions = data.rows,
                           !.totalExecutions = data.total,
                           !.hasMore = (Len(data.rows) = PageSize)]
            ELSE [S EXCEPT !.totalExecutions = 0, !.hasMore = FALSE]
  IN [s1 EXCEPT !.isRefreshing = FALSE]

\* a fetch settles with entry e for key (j, o); the refresh handler waiting
\* for it continues
Settle(j, o, e) ==
  /\ cache' = [cache EXCEPT ![j][o] = e]
  /\ IF refreshPc = "fetching" /\ j = refreshJob /\ o = 0
     THEN /\ SetState(RefreshContinue(State, cache'))
          /\ refreshPc' = "idle"
     ELSE UNCHANGED <<reactState, refreshPc, heldTerminal>>
  /\ UNCHANGED <<refs, deps, observing, store, arrivals, navigations, refreshJob,
                 requested, displayVars, cronVars>>

\* the GET of page (j, o) answers
FetchSuccess(j, o) ==
  /\ cache[j][o].fetching
  /\ Settle(j, o, [data |-> ServerPage(store, j, o, cache[j][o].preRefresh),
                   fetching |-> FALSE, preRefresh |-> FALSE])

\* the GET of page (j, o) fails for good (the library's retries included)
FetchFailure(j, o) ==
  /\ cache[j][o].fetching
  /\ Settle(j, o, [cache[j][o] EXCEPT !.fetching = FALSE, !.preRefresh = FALSE])

\* the scheduler runs job A once more: the store gets a new newest execution
NewExecution ==
  /\ arrivals < MaxArrivals
  /\ arrivals' = arrivals + 1
  /\ store' = [store EXCEPT !["A"] =
                 <<[id |-> IdBase("A") + Len(@) + 1, status |-> "success"]>> \o @]
  /\ UNCHANGED <<reactState, refs, deps, observing, cache, navigations,
                 refreshPc, refreshJob, requested, heldTerminal, displayVars,
                 cronVars>>

\* the route changes to the details page of job j: the component renders
\* with the new id
Navigate(j) ==
  /\ j # id
  /\ navigations < MaxNavigations
  /\ navigations' = navigations + 1
  /\ \E stale0, staleMore \in BOOLEAN :
       LET r == Commit([State EXCEPT !.id = j], cache, deps, observing,
                       stale0, staleMore)
       IN /\ Committed(r)
          /\ requested' = PageSize * r.asked
  /\ UNCHANGED <<store, arrivals, refreshPc, refreshJob, displayVars, cronVars>>

Next ==
  \/ Render
  \/ LoadMore
  \/ RefreshClick
  \/ RefreshRefetch
  \/ \E j \in JobIds, o \in Offsets : FetchSuccess(j, o)
  \/ \E j \in JobIds, o \in Offsets : FetchFailure(j, o)
  \/ NewExecution
  \/ \E j \in JobIds : Navigate(j)

Spec == Init /\ [][Next]_vars

\* ------------------------------------------------ timers and fetches end
\* The loader over a store that gets no new execution, when the 400 ms
\* timer of the refresh handler fires and the fetch that refetchExecutions()
\* waits for settles, one way or the other
RefetchSettles ==
  FetchSuccess(refreshJob, 0) \/ FetchFailure(refreshJob, 0)

NextRefresh ==
  \/ Render
  \/ LoadMore
  \/ RefreshClick
  \/ RefreshRefetch
  \/ \E j \in JobIds, o \in Offsets : FetchSuccess(j, o)
  \/ \E j \in JobIds, o \in Offsets : FetchFailure(j, o)
  \/ \E j \in JobIds : Navigate(j)

SpecRefresh ==
  /\ Init
  /\ [][NextRefresh]_vars
  /\ WF_vars(RefreshRefetch)
  /\ WF_vars(refreshPc = "fetching" /\ RefetchSettles)

\* ------------------------------------------------------- a store at rest
\* The loader over a store that does not change, with fetches that all
\* succeed, no refresh and no navigation: the sentinel keeps triggering
\* loadMore for as long as the guard lets it, every fetch in flight is
\* answered, and React renders what has changed.
StaticRows == 0..(MaxOffset + 5)

\* the page has mounted for job A, whose store holds any number of rows up
\* to two full pages and a few more
InitStatic ==
  /\ LoaderMounted
  /\ \E n \in StaticRows :
       store = [j \in JobIds |-> IF j = "A" THEN Rows(IdBase(j), n)
                                  ELSE Rows(IdBase(j), 3)]
  /\ heldTerminal = [i \in {} |-> "none"]
  /\ DisplayIdle
  /\ CronIdle

NextStatic ==
  \/ Render
  \/ LoadMore
  \/ \E o \in Offsets : FetchSuccess("A", o)

SpecStatic ==
  /\ InitStatic
  /\ [][NextStatic]_vars
  /\ WF_vars(Render)
  /\ WF_vars(LoadMore)
  /\ WF_vars(\E o \in Offsets : FetchSuccess("A", o))

\* ------------------------------------------- executions that are not over
\* The loader over a store in which one execution is still on its way
\* through queued -> running -> {success, failure, timed_out}: the oldest of
\* 40, the last row of page 20, is running when the page opens.  The job id
\* does not change.
UnfinishedRows ==
  [Rows(IdBase("A"), 2 * PageSize) EXCEPT ![2 * PageSize].status = "running"]

\* an execution of job A moves to a next status
Advance ==
  /\ \E i \in 1..Len(store["A"]) : \E next \in NextStatuses(store["A"][i].status) :
       store' = [store EXCEPT !["A"][i].status = next]
  /\ UNCHANGED <<reactState, refs, deps, observing, cache, arrivals, navigations,
                 refreshPc, refreshJob, requested, heldTerminal, displayVars,
                 cronVars>>

InitStatus ==
  /\ LoaderMounted
  /\ store = [j \in JobIds |-> IF j = "A" THEN UnfinishedRows
                                ELSE Rows(IdBase(j), 3)]
  /\ heldTerminal = [i \in {e.id : e \in {UnfinishedRows[k] : k \in 1..Len(UnfinishedRows)}
                                 \ {e \in {UnfinishedRows[k] : k \in 1..Len(UnfinishedRows)} :
                                      e.status \in Terminal}} |-> "none"]
  /\ DisplayIdle
  /\ CronIdle

NextStatus ==
  \/ Render
  \/ LoadMore
  \/ RefreshClick
  \/ RefreshRefetch
  \/ \E o \in Offsets : FetchSuccess("A", o)
  \/ \E o \in Offsets : FetchFailure("A", o)
  \/ NewExecution
  \/ Advance

SpecStatus == InitStatus /\ [][NextStatus]_vars

\* ------------------------------------------------- the execution display
\* Both versions of the details page turn the rows of the API into display
\* records (transformExecution), sort them newest first, give each a badge
\* (getStatusBadge) and summarise them (summaryStats).  The version with the
\* incremental loader knows the statuses queued and running; the version in
\* pages/webhook-details/index.tsx does not.
MaxExecutions == 2       \* rows of a displayed list

Statuses == {"queued", "running", "success", "failure", "timed_out"}
ResponseCodes == {200, 204, 299, 300, 399, 400, 404, 499, 500, 503}
\* response_code of a row: <<>> when the row has none, else <<code>>
ApiRows == [status : Statuses,
            response_code : {<<>>} \cup {<<c>> : c \in ResponseCodes},
            created_at : 1..MaxExecutions]

\* execution.response_code || (status === 'success' ? 200 : status === 'failure' ? 500 : 0)
StatusCodeOf(execution) ==
  IF execution.response_code # <<>> /\ execution.response_code[1] # 0
  THEN execution.response_code[1]
  ELSE IF execution.status = "success" THEN 200
  ELSE IF execution.status = "failure" THEN 500
  ELSE 0

\* transformExecution of the page with the incremental loader
transformExecution(execution) ==
  [id |-> execution.id,
   timestamp |-> execution.created_at,
   status |-> IF execution.status = "success" THEN "success"
              ELSE IF execution.status = "failure" THEN "error"
              ELSE IF execution.status = "timed_out" THEN "timeout"
              ELSE IF execution.status = "queued" THEN "queued"
              ELSE IF execution.status = "running" THEN "running"
              ELSE "error",
   statusCode |-> StatusCodeOf(execution)]

\* transformExecution of pages/webhook-details/index.tsx
transformExecutionIndex(execution) ==
  [id |-> execution.id,
   timestamp |-> execution.created_at,
   status |-> IF execution.status = "success" THEN "success"
              ELSE IF execution.status = "failure" THEN "error"
              ELSE IF execution.status = "timed_out" THEN "timeout"
              ELSE "error",
   statusCode |-> StatusCodeOf(execution)]

\* the className of the badge, by its colour
BadgeByCode(statusCode) ==
  IF statusCode >= 200 /\ statusCode < 300 THEN "bg-green-500/10"
  ELSE IF statusCode >= 400 /\ statusCode < 500 THEN "bg-yellow-500/10"
  ELSE "bg-red-500/10"

\* getStatusBadge of the page with the incremental loader
getStatusBadge(status, statusCode) ==
  IF status = "queued" THEN "bg-blue-500/10"
  ELSE IF status = "running" THEN "bg-purple-500/10"
  ELSE IF status = "timeout" THEN "bg-orange-500/10"
  ELSE BadgeByCode(statusCode)

\* getStatusBadge of pages/webhook-details/index.tsx: _status is not read
getStatusBadgeIndex(status, statusCode) == BadgeByCode(statusCode)

RECURSIVE SortByTimestamp(_)
\* .sort((a, b) => b.timestamp.getTime() - a.timestamp.getTime()): newest
\* first, rows of one timestamp in their order (the sort is stable)
SortByTimestamp(s) ==
  IF Len(s) <= 1 THEN s
  ELSE LET rest == SortByTimestamp(SubSeq(s, 1, Len(s) - 1))
           last == s[Len(s)]
           before == SelectSeq(rest, LAMBDA e : e.timestamp >= last.timestamp)
           after == SelectSeq(rest, LAMBDA e : e.timestamp < last.timestamp)
       IN before \o <<last>> \o after

\* summaryStats (the durations are not modelled)
SummaryStatsOf(execs) ==
  LET total == Len(execs)
      success == Cardinality({k \in 1..Len(execs) :
                    execs[k].statusCode >= 200 /\ execs[k].statusCode < 300})
  IN [total |-> total,
      success |-> success,
      error |-> total - success,
      successRate |-> IF total > 0 THEN (200 * success + total) \div (2 * total)
                      ELSE 0]

\* the page with the incremental loader renders the rows
RenderHistory ==
  /\ shownBy = "none"
  /\ shownBy' = "history"
  /\ LET execs == SortByTimestamp([i \in 1..Len(apiExecutions) |->
                     transformExecution(apiExecutions[i])])
     IN /\ executions' = execs
        /\ badges' = [k \in 1..Len(execs) |->
                        getStatusBadge(execs[k].status, execs[k].statusCode)]
        /\ summaryStats' = SummaryStatsOf(execs)
  /\ UNCHANGED <<apiExecutions, loaderVars, cronVars>>

\* pages/webhook-details/index.tsx renders the rows
RenderIndex ==
  /\ shownBy = "none"
  /\ shownBy' = "index"
  /\ LET execs == SortByTimestamp([i \in 1..Len(apiExecutions) |->
                     transformExecutionIndex(apiExecutions[i])])
     IN /\ executions' = execs
        /\ badges' = [k \in 1..Len(execs) |->
                        getStatusBadgeIndex(execs[k].status, execs[k].statusCode)]
        /\ summaryStats' = SummaryStatsOf(execs)
  /\ UNCHANGED <<apiExecutions, loaderVars, cronVars>>

\* a list of one up to MaxExecutions rows of the API is there to be shown;
\* the id of a row is its place in the list
InitDisplay ==
  /\ LoaderInit
  /\ Len(store["A"]) = PageSize
  /\ CronIdle
  /\ shownBy = "none"
  /\ \E n \in 1..MaxExecutions : \E f \in [1..n -> ApiRows] :
       apiExecutions = [i \in 1..n |->
                          [id |-> i, status |-> f[i].status,
                           response_code |-> f[i].response_code,
                           created_at |-> f[i].created_at]]
  /\ executions = <<>>
  /\ badges = <<>>
  /\ summaryStats = [total |-> 0, success |-> 0, error |-> 0, successRate |-> 0]

NextDisplay == RenderHistory \/ RenderIndex

SpecDisplay == InitDisplay /\ [][NextDisplay]_vars

\* ----------------------------------------------------- the schedule engine
\* A cron string is a sequence of characters.  The functions of
\* lib/cron-utils.ts are operators on it; what the libraries they call
\* (cron-parser, cronstrue) do is an argument of the operator, chosen by the
\* action among the outcomes the library can have.
MaxTokens == 7           \* tokens of a cron string
MaxRuns == 5             \* "Get next 5 run times"

Whitespace == {" ", "\t"}

RECURSIVE Str(_)
\* the string of a sequence of characters
Str(s) == IF s = <<>> THEN "" ELSE Head(s) \o Str(Tail(s))

RECURSIVE Join(_, _)
\* parts.join(sep)
Join(parts, sep) ==
  IF Len(parts) = 0 THEN <<>>
  ELSE IF Len(parts) = 1 THEN parts[1]
  ELSE parts[1] \o sep \o Join(Tail(parts), sep)

\* the fields a cron string of the model is made of: the first one takes
\* every form the describer tells apart, and one that is no cron field
FirstTokens == {<<"*">>, <<"*", "/", "5">>, <<"*", "/", "1">>, <<"0">>, <<"5">>, <<"x">>}
RestTokens == {<<"*">>, <<"5">>}
TokenLists ==
  {<<>>} \cup
  UNION {{t \in [1..n -> FirstTokens \cup RestTokens] :
            /\ t[1] \in FirstTokens
            /\ \A i \in 2..n : t[i] \in RestTokens} : n \in 1..MaxTokens}
\* the strings the user may type: the fields, separated by one blank or by
\* a blank and a tab, with or without white space around them
CronStrings ==
  {lead \o Join(t, sep) \o trail :
     t \in TokenLists, lead \in {<<>>, <<" ">>},
     sep \in {<<" ">>, <<" ", "\t">>}, trail \in {<<>>, <<"\t">>}}

RECURSIVE trimStart(_)
trimStart(s) ==
  IF s # <<>> /\ Head(s) \in Whitespace THEN trimStart(Tail(s)) ELSE s

RECURSIVE trimEnd(_)
trimEnd(s) ==
  IF s # <<>> /\ s[Len(s)] \in Whitespace
  THEN trimEnd(SubSeq(s, 1, Len(s) - 1)) ELSE s

\* String.prototype.trim
trim(s) == trimEnd(trimStart(s))

RECURSIVE SplitFrom(_, _, _)
\* the pieces of s from its current piece cur on; inRun: the last character
\* read was white space
SplitFrom(s, cur, inRun) ==
  IF s = <<>> THEN <<cur>>
  ELSE IF Head(s) \in Whitespace
       THEN IF inRun THEN SplitFrom(Tail(s), cur, TRUE)
            ELSE <<cur>> \o SplitFrom(Tail(s), <<>>, TRUE)
       ELSE SplitFrom(Tail(s), Append(cur, Head(s)), FALSE)

\* String.prototype.split(/\s+/): the empty string gives one empty piece,
\* white space at an end gives an empty piece at that end
split(s) == SplitFrom(s, <<>>, FALSE)

\* JavaScript's null
null == [null |-> TRUE]

\* the message of parseCronExpression, word by word
FieldCountError ==
  <<"Cron", "expression", "must", "have", "exactly", "5", "fields",
    "(minute", "hour", "day", "month", "weekday)", "or", "6", "fields",
    "(second", "minute", "hour", "day", "month", "weekday)">>

\* the parse without its trim
parseCronExpressionNoTrim(c) ==
  LET parts == split(c)
  IN IF Len(parts) = 5
     THEN [fields |-> [minute |-> Str(parts[1]), hour |-> Str(parts[2]),
                       dayOfMonth |-> Str(parts[3]), month |-> Str(parts[4]),
                       dayOfWeek |-> Str(parts[5])]]
     ELSE IF Len(parts) = 6
     THEN [fields |-> [second |-> Str(parts[1]), minute |-> Str(parts[2]),
                       hour |-> Str(parts[3]), dayOfMonth |-> Str(parts[4]),
                       month |-> Str(parts[5]), dayOfWeek |-> Str(parts[6])]]
     ELSE [fields |-> null, error |-> FieldCountError]

\* parseCronExpression: a result without error has no error field
parseCronExpression(c) ==
  LET trimmed == trim(c)
      parts == split(trimmed)
  IN IF Len(parts) = 5
     THEN [fields |-> [minute |-> Str(parts[1]), hour |-> Str(parts[2]),
                       dayOfMonth |-> Str(parts[3]), month |-> Str(parts[4]),
                       dayOfWeek |-> Str(parts[5])]]
     ELSE IF Len(parts) = 6
     THEN [fields |-> [second |-> Str(parts[1]), minute |-> Str(parts[2]),
                       hour |-> Str(parts[3]), dayOfMonth |-> Str(parts[4]),
                       month |-> Str(parts[5]), dayOfWeek |-> Str(parts[6])]]
     ELSE [fields |-> null, error |-> FieldCountError]

\* CronExpressionParser.parse returned, or threw an Error with a message
Returned == [threw |-> FALSE, message |-> <<>>]
Threw(message) == [threw |-> TRUE, message |-> message]

\* the fields cron-parser accepts in every place but the ones named below
ValidFields == {<<"*">>, <<"*", "/", "5">>, <<"*", "/", "1">>, <<"0">>, <<"5">>}

\* The outcomes of CronExpressionParser.parse(c, options) of cron-parser:
\* an empty expression stands for '0 * * * * *'; more than 6 fields are
\* refused; fewer than 6 are completed on the left with the defaults
\* (* for second and minute, 0 for hour, by the place they fall on); then
\* each field is checked.  The seconds option changes none of this.  What
\* the library does with an empty field is left open.
CronExpressionParserParse(c) ==
  LET expression == IF c = <<>> THEN <<"0", " ", "*", " ", "*", " ", "*", " ", "*", " ", "*">>
                    ELSE c
      atoms == split(trim(expression))
      defaults == <<<<"*">>, <<"*">>, <<"*">>, <<"*">>, <<"*">>, <<"0">>>>
      fields == IF Len(atoms) < 6 THEN SubSeq(defaults, Len(atoms) + 1, 6) \o atoms
                ELSE atoms
      bad == {i \in 1..Len(fields) : fields[i] \notin ValidFields}
  IN IF Len(atoms) > 6
     THEN {Threw(<<"Invalid", "cron", "expression,", "too", "many", "fields">>)}
     ELSE IF \E i \in 1..6 : fields[i] = <<>>
     THEN {Returned, Threw(<<"Invalid", "characters,", "got", "value:", "">>)}
     ELSE IF bad # {}
     THEN {Threw(<<"Invalid", "characters,", "got", "value:",
                   Str(fields[CHOOSE i \in bad : \A k \in bad : i <= k])>>)}
     ELSE IF fields[4] = <<"0">> \/ fields[5] = <<"0">>
     THEN {Threw(<<"Constraint", "error,", "got", "value", "0", "expected",
                   "range", IF fields[4] = <<"0">> THEN "1-31" ELSE "1-12">>)}
     ELSE {Returned}

\* validateCronExpression, given the outcome of CronExpressionParser.parse
validateCronExpression(c, outcome) ==
  IF outcome.threw
  THEN [isValid |-> FALSE,
        error |-> IF outcome.message # <<>> THEN outcome.message
                  ELSE <<"Invalid", "cron", "expression">>]
  ELSE [isValid |-> TRUE]

\* the text cronstrue.toString renders for an expression
cronstrueToString(expression) == "cronstrue(" \o Str(expression) \o ")"

\* String.prototype.toLowerCase of a text of cronstrue
toLowerCase(text) == "lower " \o text

\* fiveFieldDesc.toLowerCase().includes('every minute'): cronstrue says
\* "Every minute" when the minute field is * or */1
IncludesEveryMinute(parts) == parts[1] \in {<<"*">>, <<"*", "/", "1">>}

\* An instant is a number of milliseconds.  new Date() reads the clock on
\* a whole second or between two.
Nows == {5000, 5500}

\* the value of a decimal digit
DigitOf(ch) ==
  CASE ch = "0" -> 0 [] ch = "1" -> 1 [] ch = "2" -> 2 [] ch = "3" -> 3
    [] ch = "4" -> 4 [] ch = "5" -> 5 [] ch = "6" -> 6 [] ch = "7" -> 7
    [] ch = "8" -> 8 [] ch = "9" -> 9

RECURSIVE Num(_)
\* the number a sequence of digits writes
Num(s) ==
  IF s = <<>> THEN 0
  ELSE 10 * Num(SubSeq(s, 1, Len(s) - 1)) + DigitOf(s[Len(s)])

\* the six fields cron-parser keeps of an expression it accepts: second
\* first, the missing ones completed on the left with the defaults
CronParserFields(c) ==
  LET expression == IF c = <<>> THEN <<"0", " ", "*", " ", "*", " ", "*", " ", "*", " ", "*">>
                    ELSE c
      atoms == split(trim(expression))
      defaults == <<<<"*">>, <<"*">>, <<"*">>, <<"*">>, <<"*">>, <<"0">>>>
  IN IF Len(atoms) < 6 THEN SubSeq(defaults, Len(atoms) + 1, 6) \o atoms
     ELSE atoms

\* the first whole second after the instant t that the second field of the
\* expression matches: any second for *, the multiples of N for */N, the
\* second S of each minute for S
NextSecond(secondField, t) ==
  LET s == (t \div 1000) % 60
      minuteStart == (t \div 60000) * 60000
  IN IF secondField = <<"*">> THEN ((t \div 1000) + 1) * 1000
     ELSE IF Len(secondField) >= 2 /\ SubSeq(secondField, 1, 2) = <<"*", "/">>
     THEN LET n == Num(SubSeq(secondField, 3, Len(secondField)))
              following == ((s \div n) + 1) * n
          IN IF following < 60 THEN minuteStart + following * 1000
             ELSE minuteStart + 60000
     ELSE LET v == Num(secondField)
          IN IF s < v THEN minuteStart + v * 1000
             ELSE minuteStart + 60000 + v * 1000

\* the whole minutes an occurrence may be put off by the fields after the
\* second: none when they are all *
Laters(fields) == IF \A i \in 2..6 : fields[i] = <<"*">> THEN {0} ELSE {0, 1}

\* interval.next() of cron-parser: the first occurrence after the date the
\* iterator is at, which the iterator then moves to
IntervalNext(fields, current, later) ==
  NextSecond(fields[1], current) + later * 60000

RECURSIVE IntervalNextTimes(_, _, _, _)
\* the dates n calls of interval.next() return, one after the other
IntervalNextTimes(fields, current, later, n) ==
  IF n = 0 THEN <<>>
  ELSE LET nextDate == IntervalNext(fields, current, later)
       IN <<nextDate>> \o IntervalNextTimes(fields, nextDate, later, n - 1)

\* nextDate.toLocaleString('en-US', ...): the minute and the second that
\* are shown; every instant of the model is in the hour, the day and the
\* year of now, so no year is shown.  The instant itself is kept beside
\* the text.
toLocaleString(nextDate) ==
  [instant |-> nextDate,
   minute |-> (nextDate \div 60000) % 60,
   second |-> (nextDate \div 1000) % 60]

\* what the clock and cron-parser may do in a call of generateNextRuns:
\* the reading of the clock, the outcome of CronExpressionParser.parse, the
\* number of calls of interval.next() that return before one throws, and
\* the minutes the fields after the second put an occurrence off
Calculators(c) ==
  {[outcome |-> Threw(<<>>), now |-> CHOOSE n \in Nows : TRUE, available |-> 0,
    later |-> 0]}
    \cup {[outcome |-> Returned, now |-> n, available |-> a, later |-> l] :
            n \in Nows, a \in 0..MaxRuns, l \in Laters(CronParserFields(c))}

\* generateNextRuns calling interval.next() on an iterator of its own each
\* time round the loop
generateNextRunsFreshInterval(c, hasSeconds, outcome, calculator) ==
  IF outcome.threw THEN <<>>
  ELSE [i \in 1..Min(calculator.available, MaxRuns) |->
          toLocaleString(IntervalNext(CronParserFields(c), calculator.now,
                                      calculator.later))]

\* generateNextRuns without its limit of 5 runs
generateNextRunsNoLimit(c, hasSeconds, outcome, calculator) ==
  IF outcome.threw THEN <<>>
  ELSE LET times == IntervalNextTimes(CronParserFields(c), calculator.now,
                                      calculator.later, MaxRuns + 1)
       IN [i \in 1..(MaxRuns + 1) |-> toLocaleString(times[i])]

\* generateNextRuns, given the outcome of its CronExpressionParser.parse,
\* the reading of the clock and what the iterator does
generateNextRuns(c, hasSeconds, outcome, calculator) ==
  IF outcome.threw THEN <<>>
  ELSE LET n == Min(calculator.available, MaxRuns)
           times == IntervalNextTimes(CronParserFields(c), calculator.now,
                                      calculator.later, n)
       IN [i \in 1..n |-> toLocaleString(times[i])]

\* the description of lines 94-128, given whether cronstrue throws
DescriptionOf(c, rendererThrows) ==
  LET parts == split(trim(c))
      hasSeconds == Len(parts) = 6
  IN IF hasSeconds
     THEN LET secondField == parts[1]
              fiveFields == Tail(parts)
              fiveFieldDesc == cronstrueToString(Join(fiveFields, <<" ">>))
          IN IF secondField = <<"*">> THEN "Every second"
             ELSE IF rendererThrows THEN "Valid cron expression"
             ELSE IF Len(secondField) >= 2 /\ SubSeq(secondField, 1, 2) = <<"*", "/">>
             THEN LET interval == Str(SubSeq(secondField, 3, Len(secondField)))
                      every == "Every " \o interval \o " second"
                                 \o (IF interval # "1" THEN "s" ELSE "")
                  IN IF IncludesEveryMinute(fiveFields) THEN every
                     ELSE every \o ", " \o toLowerCase(fiveFieldDesc)
             ELSE IF secondField = <<"0">> THEN fiveFieldDesc
             ELSE fiveFieldDesc \o " at second " \o Str(secondField)
     ELSE IF rendererThrows THEN "Valid cron expression"
     ELSE cronstrueToString(c)

\* cronstrue.toString is called: not for a 6-field expression whose second
\* field is *
CronstrueCalled(c) ==
  LET parts == split(trim(c))
  IN ~(Len(parts) = 6 /\ parts[1] = <<"*">>)

\* the text cronstrue renders for the five fields is "Every minute" and
\* nothing else: every field is *, or the minute is */1
IsEveryMinute(parts) ==
  /\ parts[1] \in {<<"*">>, <<"*", "/", "1">>}
  /\ \A i \in 2..Len(parts) : parts[i] = <<"*">>

\* the describer without the try block around the renderer: its failure
\* reaches the outer catch
describeCronExpressionNoInnerCatch(c, outcome, rendererThrows, calculator) ==
  LET v == validateCronExpression(c, outcome)
  IN IF ~v.isValid
     THEN [description |-> "", nextRuns |-> <<>>, isValid |-> FALSE,
           error |-> v.error]
     ELSE IF rendererThrows /\ CronstrueCalled(c)
     THEN [description |-> "", nextRuns |-> <<>>, isValid |-> FALSE,
           error |-> <<"Failed", "to", "parse", "cron", "expression">>]
     ELSE [description |-> DescriptionOf(c, rendererThrows),
           nextRuns |-> generateNextRuns(c, Len(split(trim(c))) = 6,
                                         calculator.outcome, calculator),
           isValid |-> TRUE]

\* the describer answering a failed validation with a message of its own
describeCronExpressionOwnMessage(c, outcome, rendererThrows, calculator) ==
  LET v == validateCronExpression(c, outcome)
  IN IF ~v.isValid
     THEN [description |-> "", nextRuns |-> <<>>, isValid |-> FALSE,
           error |-> <<"Failed", "to", "parse", "cron", "expression">>]
     ELSE [description |-> DescriptionOf(c, rendererThrows),
           nextRuns |-> generateNextRuns(c, Len(split(trim(c))) = 6,
                                         calculator.outcome, calculator),
           isValid |-> TRUE]

\* describeCronExpression, given the outcome of CronExpressionParser.parse
\* in the validator, whether cronstrue throws, and what the clock and
\* cron-parser do in generateNextRuns
describeCronExpression(c, outcome, rendererThrows, calculator) ==
  LET v == validateCronExpression(c, outcome)
  IN IF ~v.isValid
     THEN [description |-> "", nextRuns |-> <<>>, isValid |-> FALSE,
           error |-> v.error]
     ELSE [description |-> DescriptionOf(c, rendererThrows),
           nextRuns |-> generateNextRuns(c, Len(split(trim(c))) = 6,
                                         calculator.outcome, calculator),
           isValid |-> TRUE]

\* no function has been applied to the string yet
Untouched == parsed = NotCalled /\ validation = NotCalled /\ described = NotCalled

\* parseCronExpression(cron) is called
Parse ==
  /\ Untouched
  /\ parsed' = parseCronExpression(cron)
  /\ UNCHANGED <<cron, validation, described, projections, library, loaderVars,
                 displayVars>>

\* validateCronExpression(cron) is called
Validate ==
  /\ Untouched
  /\ \E outcome \in CronExpressionParserParse(cron) :
       validation' = validateCronExpression(cron, outcome)
  /\ UNCHANGED <<cron, parsed, described, projections, library, loaderVars,
                 displayVars>>

\* describeCronExpression(cron) is called and the library answers outcome
DescribeWith(outcome) ==
  /\ Untouched
  /\ IF outcome.threw
     THEN /\ described' = describeCronExpression(cron, outcome, FALSE, NotCalled)
          /\ library' = NotCalled
          /\ projections' = projections
     ELSE \E rendererThrows \in BOOLEAN, calculator \in Calculators(cron) :
            /\ described' = describeCronExpression(cron, outcome, rendererThrows,
                                                   calculator)
            /\ library' = [rendererThrows |-> rendererThrows,
                           calculator |-> calculator]
            /\ projections' = projections + 1
  /\ UNCHANGED <<cron, parsed, validation, loaderVars, displayVars>>

\* describeCronExpression(cron) is called
Describe == \E outcome \in CronExpressionParserParse(cron) : DescribeWith(outcome)

\* the user has typed a cron string
InitCron ==
  /\ LoaderInit
  /\ Len(store["A"]) = PageSize
  /\ DisplayIdle
  /\ cron \in CronStrings
  /\ parsed = NotCalled
  /\ validation = NotCalled
  /\ described = NotCalled
  /\ projections = 0
  /\ library = NotCalled

NextCron == Parse \/ Validate \/ Describe

SpecCron == InitCron /\ [][NextCron]_vars

\* ------------------------------------------------------------- the claims
\* load-more fetches of the current job that are in flight
LoadMoreInFlight == {o \in MoreOffsets : cache[id][o].fetching}

\* the component has rendered everything that changed
Rendered == deps = View(State, cache)

\* C1: at most one load-more page fetch is in flight at any time, and two
\* loadMore triggers with no page response applied between them never both
\* pass the guard: a trigger passes the guard only when no earlier trigger
\* is still unanswered (isLoadingMore is false) and no load-more fetch is in
\* flight, and then at most one load-more fetch is in flight
C1_AtMostOneLoad ==
  [][/\ LoadMore => (~isLoadingMore /\ LoadMoreInFlight = {})
     /\ Cardinality(LoadMoreInFlight') <= 1]_vars

\* C2: loadedExecutions never holds two records with the same id
C2_NoDuplicateIds == NoDuplicates(loadedExecutions)

\* C2 witness: a page that repeats an id of an earlier page (the store grew
\* between the two fetches) has been appended
C2_Witness ==
  /\ Rendered
  /\ currentOffset > 0
  /\ deps.moreExecutionsData.has
  /\ Len(loadedExecutions) > PageSize
  /\ SeqToSet(deps.moreExecutionsData.rows) \subseteq SeqToSet(loadedExecutions)
  /\ Len(loadedExecutions) < PageSize + Len(deps.moreExecutionsData.rows)

\* C3: once a load-more fetch has settled, with a page or with an error, and
\* the component has rendered, isLoadingMore is false
C3_GuardClearedOnSettle ==
  (Rendered /\ currentOffset > 0 /\ ~cache[id][currentOffset].fetching)
    => ~isLoadingMore

\* C4: while a refresh is in progress no loadMore trigger passes: the
\* offset stays 0 and isLoadingMore stays false
C4_RefreshSuppressesLoadMore ==
  refreshPc # "idle" => (currentOffset = 0 /\ ~isLoadingMore)

\* C5: a render that applies the answer of a load-more fetch that a refresh
\* found in flight changes neither totalExecutions nor hasMore
C5_LateResponseIgnored ==
  [][(/\ Render
      /\ deps'.currentOffset > 0
      /\ deps'.moreExecutionsData.late
      /\ <<deps'.moreExecutionsData, deps'.currentOffset>>
           # <<deps.moreExecutionsData, deps.currentOffset>>)
     => (hasMore' = hasMore /\ totalExecutions' = totalExecutions)]_vars

\* C6: a loadMore call made while isLoadingMore is true or hasMore is false
\* changes no loader state
C6_LoadMoreNoOp ==
  [][(LoadMore /\ (isLoadingMore \/ ~hasMore))
     => UNCHANGED <<loadedExecutions, totalExecutions, currentOffset, hasMore,
                    isLoadingMore>>]_vars

\* C7: a history fetch that fails leaves hasMore and totalExecutions as
\* they were
C7_FailureKeepsCounts ==
  [][(\E j \in JobIds, o \in Offsets : FetchFailure(j, o))
     => (hasMore' = hasMore /\ totalExecutions' = totalExecutions)]_vars

\* C8: a change of the job id issues no fetch for the new job at a non-zero
\* offset: the loader is reset before anything is fetched for it
C8_ResetBeforeFetch ==
  [][id' # id
     => \A o \in MoreOffsets : cache'[id'][o].fetching => cache[id'][o].fetching]_vars

\* C9: when the refresh of a job completes with a fresh page 0, the offset
\* is 0 and loadedExecutions, totalExecutions and hasMore are those of that
\* page
C9_RefreshYieldsFirstPage ==
  [][(/\ refreshPc = "fetching" /\ refreshPc' = "idle"
      /\ id = refreshJob /\ deps.id = refreshJob
      /\ FetchSuccess(refreshJob, 0))
     => LET page == cache'[refreshJob][0].data
        IN /\ currentOffset' = 0
           /\ loadedExecutions' = page.rows
           /\ totalExecutions' = page.total
           /\ hasMore' = (Len(page.rows) = PageSize)]_vars

\* C10: the offset counts the records requested since the last reset; as
\* the code keeps the offset of the last page it asked for, that is: once
\* rendered and outside the delay of a refresh, the offset plus one page is
\* the number of records requested
C10_OffsetCountsRequested ==
  (Rendered /\ refreshPc # "delay") => requested = currentOffset + PageSize

\* a render whose append effect runs on the page of a load-more query
AppendApplied ==
  /\ Render
  /\ deps'.currentOffset > 0
  /\ deps'.moreExecutionsData.has
  /\ <<deps'.moreExecutionsData, deps'.currentOffset>>
       # <<deps.moreExecutionsData, deps.currentOffset>>

C12_HasMoreFromPage ==
  [][AppendApplied
     => hasMore' = (Len(deps'.moreExecutionsData.rows) = PageSize)]_vars

\* C12 witness: an empty page has been applied after a full page 0
C12_Witness ==
  /\ Rendered
  /\ currentOffset = PageSize
  /\ deps.moreExecutionsData.has
  /\ Len(deps.moreExecutionsData.rows) = 0
  /\ Len(loadedExecutions) = PageSize
  /\ ~hasMore
  /\ ~isLoadingMore

\* C13: applying the page of a load-more query leaves totalExecutions as
\* it was; totalExecutions only changes to the total of a page 0 (initial
\* load or refresh) or to 0 when the job id changes
C13_TotalOnlyFromFirstPage ==
  [][/\ AppendApplied => totalExecutions' = totalExecutions
     /\ totalExecutions' # totalExecutions
          => \/ id' # id /\ totalExecutions' = 0
             \/ /\ cache'[id'][0].data.has
                /\ totalExecutions' = cache'[id'][0].data.total]_vars

\* C13 witness: a later page reporting another total than page 0 did has
\* been applied, and totalExecutions is still the total of page 0
C13_Witness ==
  /\ Rendered
  /\ currentOffset > 0
  /\ deps.moreExecutionsData.has
  /\ ~isLoadingMore
  /\ deps.executionsData.has
  /\ deps.moreExecutionsData.total # deps.executionsData.total
  /\ totalExecutions = deps.executionsData.total

\* C17: the store moves the status of an execution along
\* queued -> running -> {success, failure, timed_out} (Advance), and once
\* the loader has held a record in a terminal status, every later
\* loadedExecutions that holds the record holds it in that status
C17_TerminalStaysTerminal ==
  \A i \in DOMAIN heldTerminal :
    heldTerminal[i] # "none"
      => \A k \in 1..Len(loadedExecutions) :
           loadedExecutions[k].id = i
             => loadedExecutions[k].status = heldTerminal[i]

\* the row of the API that the k-th displayed record was made from
ApiRowOf(k) ==
  apiExecutions[CHOOSE i \in 1..Len(apiExecutions) :
                  apiExecutions[i].id = executions[k].id]

\* C14: the badge of a displayed record depends on the HTTP code alone: a
\* response code in [200,300) gives the success class, one in [400,500) the
\* client-error class, any other and an absent one the failure class,
\* whatever the stored status
C14_StyleByCodeOnly ==
  shownBy # "none"
    => \A k \in 1..Len(executions) :
         LET code == ApiRowOf(k).response_code
         IN badges[k] = IF code # <<>> /\ code[1] >= 200 /\ code[1] < 300
                        THEN "bg-green-500/10"
                        ELSE IF code # <<>> /\ code[1] >= 400 /\ code[1] < 500
                        THEN "bg-yellow-500/10"
                        ELSE "bg-red-500/10"

\* C15: a record with status queued and no response code gets the queued
\* class, which is neither the success class nor the failure class
C15_QueuedOwnClass ==
  shownBy # "none"
    => \A k \in 1..Len(executions) :
         (ApiRowOf(k).status = "queued" /\ ApiRowOf(k).response_code = <<>>)
           => /\ badges[k] = "bg-blue-500/10"
              /\ badges[k] \notin {"bg-green-500/10", "bg-red-500/10"}

\* C16: the summary counts a record as a success exactly when its stored
\* status is success
C16_StatsByStatus ==
  shownBy # "none"
    => summaryStats.success
         = Cardinality({i \in 1..Len(apiExecutions) :
                          apiExecutions[i].status = "success"})

RECURSIVE Words(_)
\* the tokens of a string: its maximal runs of characters that are not
\* white space
Words(s) ==
  IF s = <<>> THEN <<>>
  ELSE IF Head(s) \in Whitespace THEN Words(Tail(s))
  ELSE LET stops == {i \in 1..Len(s) : s[i] \in Whitespace}
           n == IF stops = {} THEN Len(s)
                ELSE (CHOOSE i \in stops : \A k \in stops : i <= k) - 1
       IN <<Str(SubSeq(s, 1, n))>> \o Words(SubSeq(s, n + 1, Len(s)))

\* the message names the form of n fields
NamesFields(message, n) ==
  \E i \in 1..(Len(message) - 1) : message[i] = n /\ message[i + 1] = "fields"

\* C18: parseCronExpression of a string of exactly 5 tokens returns them as
\* minute, hour, dayOfMonth, month, dayOfWeek and no second; of exactly 6
\* tokens the first as second and the other five after it; of any other
\* number of tokens no fields and an error naming the 5-field and the
\* 6-field form; so second is there iff there are 6 tokens
C18_ParseByTokenCount ==
  parsed # NotCalled
    => LET w == Words(cron)
       IN /\ Len(w) = 5
               => parsed = [fields |-> [minute |-> w[1], hour |-> w[2],
                                        dayOfMonth |-> w[3], month |-> w[4],
                                        dayOfWeek |-> w[5]]]
          /\ Len(w) = 6
               => parsed = [fields |-> [second |-> w[1], minute |-> w[2],
                                        hour |-> w[3], dayOfMonth |-> w[4],
                                        month |-> w[5], dayOfWeek |-> w[6]]]
          /\ Len(w) \notin {5, 6}
               => /\ parsed.fields = null
                  /\ "error" \in DOMAIN parsed
                  /\ NamesFields(parsed.error, "5")
                  /\ NamesFields(parsed.error, "6")
          /\ parsed.fields # null
               => ("second" \in DOMAIN parsed.fields <=> Len(w) = 6)

\* C18 witness: a string of 6 tokens with white space before, between and
\* after them has been parsed, and its first token is the second field
C18_Witness ==
  /\ parsed # NotCalled
  /\ Len(Words(cron)) = 6
  /\ Head(cron) \in Whitespace
  /\ cron[Len(cron)] \in Whitespace
  /\ parsed.fields # null
  /\ parsed.fields.second = "*/5"

\* C19: for a string whose number of tokens is neither 5 nor 6,
\* validateCronExpression returns isValid = false and an error naming
\* "5 fields" and "6 fields"
C19_ValidateFieldCount ==
  (validation # NotCalled /\ Len(Words(cron)) \notin {5, 6})
    => /\ ~validation.isValid
       /\ NamesFields(validation.error, "5")
       /\ NamesFields(validation.error, "6")

\* C20: when the validation fails, describeCronExpression returns
\* isValid = false, an empty description, no next runs and the error of
\* the validator as it is, and generateNextRuns is not called
C20_DescribeInvalid ==
  [][\A outcome \in CronExpressionParserParse(cron) :
       (~validateCronExpression(cron, outcome).isValid /\ DescribeWith(outcome))
         => /\ described' = [description |-> "", nextRuns |-> <<>>,
                             isValid |-> FALSE,
                             error |-> validateCronExpression(cron, outcome).error]
            /\ projections' = projections]_vars

\* C20 witness: a string of 5 tokens that the validator refuses has been
\* described
C20_Witness ==
  /\ described # NotCalled
  /\ Len(Words(cron)) = 5
  /\ ~described.isValid
  /\ described.error # <<>>
  /\ projections = 0

\* C21: the next runs of a valid expression are at most 5, each at an
\* instant strictly later than the reading of the clock taken at the start
\* of generateNextRuns, and each strictly later than the one before it
C21_RunsIncreaseAfterNow ==
  (described # NotCalled /\ described.isValid)
    => LET runs == described.nextRuns
       IN /\ Len(runs) <= MaxRuns
          /\ \A i \in 1..Len(runs) : runs[i].instant > library.calculator.now
          /\ \A i \in 1..(Len(runs) - 1) : runs[i].instant < runs[i + 1].instant

\* C21 witness: the clock read a whole second that is itself an occurrence
\* of the expression, and 5 runs have been produced, the first of them one
\* minute later
C21_Witness ==
  /\ described # NotCalled
  /\ described.isValid
  /\ CronParserFields(cron)[1] = <<"5">>
  /\ library.calculator.now = 5000
  /\ Len(described.nextRuns) = MaxRuns
  /\ described.nextRuns[1].instant = 65000

\* C28: for an expression that passes validation, generateNextRuns returns
\* at most 5 runs; when interval.next() throws on its k-th call the runs
\* are those of the k-1 calls before it, in their order; when
\* CronExpressionParser.parse throws in generateNextRuns there are no runs;
\* and describeCronExpression returns isValid = true and no error all the same
C28_PartialRuns ==
  (described # NotCalled /\ library # NotCalled)
    => LET calculator == library.calculator
           times == IntervalNextTimes(CronParserFields(cron), calculator.now,
                                      calculator.later, MaxRuns)
           runs == described.nextRuns
       IN /\ described.isValid
          /\ "error" \notin DOMAIN described
          /\ Len(runs) <= MaxRuns
          /\ calculator.outcome.threw => runs = <<>>
          /\ ~calculator.outcome.threw
               => /\ Len(runs) = Min(calculator.available, MaxRuns)
                  /\ \A i \in 1..Len(runs) : runs[i] = toLocaleString(times[i])

\* C28 witness: interval.next() threw on its third call, and the two runs
\* before it were returned with isValid = true
C28_Witness ==
  /\ described # NotCalled
  /\ library # NotCalled
  /\ ~library.calculator.outcome.threw
  /\ library.calculator.available = 2
  /\ Len(described.nextRuns) = 2
  /\ described.isValid

\* C29: for an expression that passes validation, when cronstrue.toString
\* is called and throws, describeCronExpression returns isValid = true, no
\* error, the description "Valid cron expression", and the next runs of
\* generateNextRuns
C29_RendererFailure ==
  (described # NotCalled /\ library # NotCalled
     /\ library.rendererThrows /\ CronstrueCalled(cron))
    => /\ described.isValid
       /\ "error" \notin DOMAIN described
       /\ described.description = "Valid cron expression"
       /\ projections = 1
       /\ described.nextRuns
            = generateNextRuns(cron, Len(Words(cron)) = 6,
                               library.calculator.outcome, library.calculator)

\* C29 witness: cronstrue threw for the five fields after a second field
\* */5, and the description is the fallback with 5 next runs beside it
C29_Witness ==
  /\ described # NotCalled
  /\ library # NotCalled
  /\ library.rendererThrows
  /\ Len(Words(cron)) = 6
  /\ Words(cron)[1] = "*/5"
  /\ described.description = "Valid cron expression"
  /\ Len(described.nextRuns) = MaxRuns

\* C30: the description of a valid 6-field expression, when cronstrue does
\* not throw, goes by the second field: "Every second" for *; for */N
\* "Every N second(s)", followed by the description of the five fields
\* unless that description is "Every minute" itself; for 0 the description
\* of the five fields as it is; for another second S that description
\* followed by " at second S"
C30_DescriptionBySecondField ==
  (described # NotCalled /\ library # NotCalled /\ ~library.rendererThrows
     /\ Len(Words(cron)) = 6)
    => LET parts == split(trim(cron))
           secondField == parts[1]
           fiveFields == Tail(parts)
           fiveFieldDesc == cronstrueToString(Join(fiveFields, <<" ">>))
           interval == Str(SubSeq(secondField, 3, Len(secondField)))
           every == "Every " \o interval \o " second"
                      \o (IF interval # "1" THEN "s" ELSE "")
       IN described.description
            = IF secondField = <<"*">> THEN "Every second"
              ELSE IF Len(secondField) >= 2 /\ SubSeq(secondField, 1, 2) = <<"*", "/">>
              THEN IF IsEveryMinute(fiveFields) THEN every
                   ELSE every \o ", " \o toLowerCase(fiveFieldDesc)
              ELSE IF secondField = <<"0">> THEN fiveFieldDesc
              ELSE fiveFieldDesc \o " at second " \o Str(secondField)

\* every fetch of the current job has settled and no refresh is under way
NoFetchInFlight ==
  /\ refreshPc = "idle"
  /\ \A o \in Offsets : ~cache[id][o].fetching

\* C22: in every state with no fetch in flight, every page below the
\* current offset has been answered, and loadedExecutions holds every id
\* that was served at an offset 0, 20, ..., currentOffset: no page is
\* skipped
C22_NoPageSkipped ==
  (Rendered /\ NoFetchInFlight)
    => \A o \in Offsets :
         o <= currentOffset
           => /\ o < currentOffset => cache[id][o].data.has
              /\ cache[id][o].data.has
                   => SeqToSet(cache[id][o].data.rows) \subseteq SeqToSet(loadedExecutions)

\* the loader has come to rest with nothing more to load
LoaderDone == ~hasMore /\ Rendered /\ NoFetchInFlight

\* C23: over a store at rest whose fetches all succeed, under repeated
\* loadMore triggers the loader eventually has hasMore = false with no
\* fetch in flight, and then loadedExecutions holds every row of the store
\* exactly once
C23_LoadsEverything ==
  /\ <>LoaderDone
  /\ [](LoaderDone => /\ NoDuplicates(loadedExecutions)
                      /\ SeqToSet(loadedExecutions) = SeqToSet(store[id]))

\* C24: over a store at rest of exactly k pages of 20 rows, hasMore
\* becomes false only when the empty page at offset k*20 is applied, and
\* no page beyond offset k*20 is ever fetched
C24_OneEmptyRoundTrip ==
  [][Len(store[id]) \in {k * PageSize : k \in 1..(MaxOffset \div PageSize)}
       => /\ (hasMore /\ ~hasMore')
               => /\ currentOffset = Len(store[id])
                  /\ cache[id][currentOffset].data.has
                  /\ cache[id][currentOffset].data.rows = <<>>
          /\ \A o \in MoreOffsets :
               o > Len(store[id])
                 => ~cache'[id][o].fetching /\ ~cache'[id][o].data.has]_vars

\* s is the beginning of t: the same records in the same order
IsPrefix(s, t) == Len(s) <= Len(t) /\ SubSeq(t, 1, Len(s)) = s

\* C25: in a step that is no reset (the job id stays and no refresh is
\* under way) loadedExecutions keeps what it held as a prefix; in
\* particular applying a loadMore page only adds records after it
C25_AppendOnly ==
  [][(id' = id /\ refreshPc = "idle" /\ refreshPc' = "idle")
       => IsPrefix(loadedExecutions, loadedExecutions')]_vars

\* C25 witness: a page of loadMore has been appended after the 20 rows of
\* page 0
C25_Witness ==
  /\ Rendered
  /\ refreshPc = "idle"
  /\ currentOffset = PageSize
  /\ Len(loadedExecutions) > PageSize
  /\ SubSeq(loadedExecutions, 1, PageSize) = cache[id][0].data.rows

\* C27: a click on refresh sets isRefreshing; the step in which the
\* re-fetch of the refresh settles, with or without an answer, clears it;
\* it is never true without the handler that clears it being under way;
\* and when it is true it is eventually false
C27_RefreshingCleared ==
  /\ [][/\ RefreshClick => isRefreshing'
        /\ (refreshPc = "fetching" /\ refreshPc' = "idle") => ~isRefreshing'
        /\ isRefreshing' => refreshPc' # "idle"]_vars
  /\ [](isRefreshing => <>(~isRefreshing))

\* C27 witness: the re-fetch of a refresh failed, leaving page 0 without
\* data, and isRefreshing has been cleared
C27_Witness ==
  /\ requested = PageSize
  /\ refreshPc = "idle"
  /\ ~isRefreshing
  /\ ~cache[refreshJob][0].data.has
  /\ ~cache[refreshJob][0].fetching
  /\ ~hasMore
  /\ id = refreshJob

\* C26: once the job id has changed, loadedExecutions holds no record of
\* another job than the one shown: neither after the effects of a render
\* have run, nor in the render with the new id itself, which must see an
\* empty loadedExecutions
C26_NoRecordOfOtherJob ==
  [][/\ \A j \in JobIds \ {id'} :
          SeqToSet(loadedExecutions') \cap SeqToSet(store'[j]) = {}
     /\ id' # id => deps'.loadedLen = 0]_vars

====
